---- MODULE Spec2Model ----
(***************************************************************************)
(* vite-shield: the config transformer (lib/transformer, kept in           *)
(* src/bin/cli.js lines 61-102) and the CLI run that calls it.             *)
(*                                                                         *)
(* A source text is modelled by its syntax: a flag telling whether it      *)
(* parses and the sequence of its top-level call statements.  An object    *)
(* literal carries the list of its properties and the style of its text    *)
(* ("user": as the user wrote it, "printer": re-printed by recast after    *)
(* its property list was changed).                                         *)
(***************************************************************************)
EXTENDS Integers, Sequences, FiniteSets, TLC

VARIABLES
  source,    \* the text handed to the transformer in this pass
  pc,        \* position inside the transformer
  root,      \* the parsed tree (sequence of call statements)
  cfgIdx,    \* index in root of findConfig.get(0); 0 before the search
  out,       \* the text the transformer returned
  pass,      \* 1: first run, 2: run on the result of the first run
  first,     \* the text returned by the first run
  rev,       \* which revision of run() is running: "part_000" or "cli"
  rpc,       \* position inside run()
  fs,        \* the files of the project root
  fs0,       \* the files as they were when run() started
  steps      \* the steps run() has completed, in order

tvars == <<source, pc, root, cfgIdx, out, pass, first>>
rvars == <<rev, rpc, fs, fs0, steps>>
vars == <<tvars, rvars>>

-----------------------------------------------------------------------------
(* Bounds of the inputs *)

\* longest property list of the defineConfig argument in an input
MaxProps == 2
\* longest headers map the user wrote in an input
MaxEntries == 1

-----------------------------------------------------------------------------
(* Syntax nodes *)

NoText == [parseable |-> FALSE, stmts |-> <<>>]

Undefined == [type |-> "undefined", props |-> <<>>, text |-> "", style |-> ""]
Lit(t)    == [type |-> "lit",   props |-> <<>>, text |-> t, style |-> ""]
Ident(n)  == [type |-> "ident", props |-> <<>>, text |-> n, style |-> ""]
Func(n)   == [type |-> "func",  props |-> <<>>, text |-> n, style |-> ""]
Obj(ps, st) == [type |-> "obj", props |-> ps, text |-> "", style |-> st]

\* form: "ident" (key: v), "string" ('key': v), "computed" ([key]: v),
\* "spread" (...name, a SpreadElement: it has no key and no value)
Prop(form, name, value) == [form |-> form, name |-> name, value |-> value]
Spread(name) == Prop("spread", name, Undefined)

Call(callee, args) == [callee |-> callee, args |-> args]

-----------------------------------------------------------------------------
(* The canonical header list *)

SECURITY_HEADERS ==
  << <<"Strict-Transport-Security", "max-age=31536000; includeSubDomains; preload">>,
     <<"X-Frame-Options", "SAMEORIGIN">>,
     <<"Content-Security-Policy", "default-src 'self'; script-src 'self' 'unsafe-inline'; style-src 'self' https:; img-src 'self' data:; frame-ancestors 'self'">>,
     <<"X-Content-Type-Options", "nosniff">>,
     <<"Referrer-Policy", "no-referrer">>,
     <<"X-DNS-Prefetch-Control", "off">>,
     <<"X-Download-Options", "noopen">>,
     <<"X-Permitted-Cross-Domain-Policies", "none">>,
     <<"X-XSS-Protection", "0">> >>

\* SECURITY_HEADERS.map(([k, v]) => j.property('init', j.stringLiteral(k), j.literal(v)))
headerProps ==
  [i \in 1..Len(SECURITY_HEADERS) |->
     Prop("string", SECURITY_HEADERS[i][1], Lit(SECURITY_HEADERS[i][2]))]

-----------------------------------------------------------------------------
(* Files, templates and package.json *)

\* the headers the generated server.js sets with res.setHeader
ServerHeaders ==
  << <<"Strict-Transport-Security", "max-age=31536000; includeSubDomains; preload">>,
     <<"X-Frame-Options", "SAMEORIGIN">>,
     <<"Content-Security-Policy", "default-src 'self'; script-src 'self' 'unsafe-inline'; style-src 'self' 'unsafe-inline' https: https://fonts.googleapis.com; img-src 'self' data: blob: https://*.googleusercontent.com https://*.blob.core.windows.net; font-src 'self' data: https://fonts.gstatic.com; connect-src 'self' https://*.blob.core.windows.net wss:; frame-src 'self' blob:; media-src 'self' blob: https://*.blob.core.windows.net; frame-ancestors 'self'">>,
     <<"X-Content-Type-Options", "nosniff">>,
     <<"Referrer-Policy", "no-referrer">>,
     <<"X-DNS-Prefetch-Control", "off">>,
     <<"X-Download-Options", "noopen">>,
     <<"X-Permitted-Cross-Domain-Policies", "none">>,
     <<"X-XSS-Protection", "0">> >>

\* the headers the generated nginx.conf sets with add_header
NginxHeaders ==
  << <<"Strict-Transport-Security", "max-age=31536000; includeSubDomains; preload">>,
     <<"X-Frame-Options", "SAMEORIGIN">>,
     <<"Content-Security-Policy", "default-src 'self'; script-src 'self' 'unsafe-inline'; style-src 'self' 'unsafe-inline' https: https://fonts.googleapis.com; img-src 'self' data: blob: https://*.googleusercontent.com https://*.blob.core.windows.net; font-src 'self' data: https://fonts.gstatic.com; connect-src 'self' https://*.blob.core.windows.net wss:; frame-src 'self' blob:; media-src 'self' blob: https://*.blob.core.windows.net; frame-ancestors 'self'">>,
     <<"X-Content-Type-Options", "nosniff">>,
     <<"Referrer-Policy", "no-referrer">>,
     <<"X-DNS-Prefetch-Control", "off">>,
     <<"X-Download-Options", "noopen">>,
     <<"X-Permitted-Cross-Domain-Policies", "none">>,
     <<"X-XSS-Protection", "0">> >>

Template(kind, headers) == [kind |-> kind, headers |-> headers]
NoTemplate == Template("", <<>>)
OldTemplate == Template("old", <<>>)

\* the server.js either revision writes: the later one sets each header
\* itself, the earlier one hands the job to helmet and sets none
serverTemplate(r) ==
  IF r = "part_000" THEN Template("setHeader", ServerHeaders)
  ELSE Template("helmet", <<>>)

nginxTemplate == Template("add_header", NginxHeaders)

\* JSON values; an object is the sequence of its members, in order
JUndef == [t |-> "undefined", s |-> "", o |-> <<>>]
JNull == [t |-> "null", s |-> "", o |-> <<>>]
JStr(x) == [t |-> "str", s |-> x, o |-> <<>>]
JObj(ms) == [t |-> "obj", s |-> "", o |-> ms]
Mem(k, v) == [key |-> k, val |-> v]

\* !v
Falsy(v) == v.t \in {"undefined", "null"} \/ (v.t = "str" /\ v.s = "")

KeyAt(obj, k) == { i \in 1..Len(obj.o) : obj.o[i].key = k }

\* obj[k]
Get(obj, k) ==
  IF obj.t # "obj" \/ KeyAt(obj, k) = {} THEN JUndef
  ELSE obj.o[CHOOSE i \in KeyAt(obj, k) : TRUE].val

\* obj[k] = v: an existing member keeps its place, a new one goes last
Put(obj, k, v) ==
  IF KeyAt(obj, k) = {} THEN [obj EXCEPT !.o = Append(@, Mem(k, v))]
  ELSE [obj EXCEPT !.o[CHOOSE i \in KeyAt(obj, k) : TRUE].val = v]

\* the text of a package.json: whether it is JSON, its indentation, its value
PkgText(valid, indent, json) == [valid |-> valid, indent |-> indent, json |-> json]
NoPkg == PkgText(FALSE, "", JUndef)

\* JSON.parse(text) of a text that is JSON
JsonParse(text) == text.json

\* JSON.stringify(pkg, null, 2)
JsonStringify(v) == PkgText(TRUE, "2", v)

\* if (!pkg.scripts) pkg.scripts = {}
EnsureScripts(pkg) ==
  IF Falsy(Get(pkg, "scripts")) THEN Put(pkg, "scripts", JObj(<<>>)) ELSE pkg

\* pkg.scripts[name] = 'node server.js'
SetScript(pkg, name) ==
  Put(pkg, "scripts", Put(Get(pkg, "scripts"), name, JStr("node server.js")))

\* if (!pkg.dependencies) pkg.dependencies = {}
EnsureDependencies(pkg) ==
  IF Falsy(Get(pkg, "dependencies")) THEN Put(pkg, "dependencies", JObj(<<>>)) ELSE pkg

\* a slip that drops the existence check on the express version
SetExpress(pkg) ==
  Put(pkg, "dependencies", Put(Get(pkg, "dependencies"), "express", JStr("^4.21.2")))

\* if (!pkg.dependencies.express) pkg.dependencies.express = '^4.21.2'
EnsureExpress(pkg) ==
  IF Falsy(Get(Get(pkg, "dependencies"), "express"))
    THEN Put(pkg, "dependencies", Put(Get(pkg, "dependencies"), "express", JStr("^4.21.2")))
    ELSE pkg

\* if (!pkg.type) pkg.type = 'module'
EnsureType(pkg) ==
  IF Falsy(Get(pkg, "type")) THEN Put(pkg, "type", JStr("module")) ELSE pkg

\* part_000 lines 598-611
UpdatePkg(pkg) ==
  EnsureType(EnsureExpress(EnsureDependencies(SetScript(EnsureScripts(pkg), "start"))))

File(data) == [exists |-> TRUE, data |-> data]
NoFile(blank) == [exists |-> FALSE, data |-> blank]

NoFiles ==
  [ ts |-> NoFile(NoText), js |-> NoFile(NoText), server |-> NoFile(NoTemplate),
    nginx |-> NoFile(NoTemplate), pkg |-> NoFile(NoPkg) ]

-----------------------------------------------------------------------------
(* The steps of the transformer *)

\* j(source): the tree of a text that parses
Parse(src) == src.stmts

\* root.toSource(): the text of a tree
ToSource(tree) == [parseable |-> TRUE, stmts |-> tree]

\* a slip that drops the callee filter: every call expression matches
IsAnyCall(stmt) == Len(stmt.args) >= 0

\* the matcher { callee: { name: 'defineConfig' } }
IsConfigCall(stmt) == stmt.callee = "defineConfig"

\* root.find(j.CallExpression, ...): the matching calls, in traversal order
RECURSIVE FindConfigFrom(_, _)
FindConfigFrom(tree, i) ==
  IF i > Len(tree) THEN <<>>
  ELSE IF IsConfigCall(tree[i]) THEN <<i>> \o FindConfigFrom(tree, i + 1)
  ELSE FindConfigFrom(tree, i + 1)

FindConfig(tree) == FindConfigFrom(tree, 1)

\* node.arguments[0]: undefined when the call has no argument
FirstArg(stmt) == IF Len(stmt.args) = 0 THEN Undefined ELSE stmt.args[1]

\* a slip that reads p.key.value: only string-literal keys can match
KeyValueIs(p, name) == p.form = "string" /\ p.name = name

\* p.key.name === name, for a property that has a key: an Identifier key has
\* a name (computed or not), a string-literal key has none
KeyNameIs(p, name) == p.form \in {"ident", "computed"} /\ p.name = name

\* properties.find(p => p.key.name === name): the index of the first match,
\* 0 when there is none (undefined), -1 when the predicate reads .name of the
\* missing key of a spread element first (TypeError)
RECURSIVE FindProp(_, _, _)
FindProp(props, name, i) ==
  IF i > Len(props) THEN 0
  ELSE IF props[i].form = "spread" THEN -1
  ELSE IF KeyNameIs(props[i], name) THEN i
  ELSE FindProp(props, name, i + 1)

\* a slip that uses unshift: the new property goes first
Unshift(obj, p) == [obj EXCEPT !.props = <<p>> \o @, !.style = "printer"]

\* obj.properties.push(p); recast re-prints an object whose list changed
Push(obj, p) == [obj EXCEPT !.props = Append(@, p), !.style = "printer"]

\* j.property('init', j.identifier(section), j.objectExpression([]))
NewSection(section) == Prop("ident", section, Obj(<<>>, "printer"))

\* j.property('init', j.identifier('headers'), j.objectExpression(headerProps))
NewHeaders == Prop("ident", "headers", Obj(headerProps, "printer"))

Thrown == [kind |-> "throw", obj |-> Undefined]
Ok(obj) == [kind |-> "ok", obj |-> obj]

\* lines 94-98: the headers property of a section value
EnsureHeaders(sec) ==
  IF sec.type # "obj" THEN Thrown
  ELSE LET h == FindProp(sec.props, "headers", 1) IN
       IF h = -1 THEN Thrown
       ELSE IF h = 0 THEN Ok(Push(sec, NewHeaders))
       ELSE Ok(sec)

\* lines 87-98: one iteration of ['server', 'preview'].forEach
SectionStep(cfg, section) ==
  IF cfg.type # "obj" THEN Thrown
  ELSE LET i == FindProp(cfg.props, section, 1) IN
       IF i = -1 THEN Thrown
       ELSE LET cfg1 == IF i = 0 THEN Push(cfg, NewSection(section)) ELSE cfg
                k    == IF i = 0 THEN Len(cfg1.props) ELSE i
                r    == EnsureHeaders(cfg1.props[k].value)
            IN IF r.kind = "throw" THEN Thrown
               ELSE IF r.obj = cfg1.props[k].value THEN Ok(cfg1)
               ELSE Ok([cfg1 EXCEPT !.props[k].value = r.obj])

-----------------------------------------------------------------------------
(* Inputs *)

\* header entries a user may have written
UserEntries ==
  { Prop("string", "X-Frame-Options", Lit("DENY")),
    Prop("string", "X-Custom", Lit("1")) }

RECURSIVE SeqsUpTo(_, _)
SeqsUpTo(S, n) ==
  IF n = 0 THEN { <<>> }
  ELSE LET shorter == SeqsUpTo(S, n - 1)
       IN shorter \cup { Append(s, x) : s \in { t \in shorter : Len(t) = n - 1 }, x \in S }

\* no key is written twice
NoRepeat(s) == \A i, j \in 1..Len(s) : i # j => s[i].name # s[j].name

UserMaps == { m \in SeqsUpTo(UserEntries, MaxEntries) : NoRepeat(m) }

Port == Prop("ident", "port", Lit("3000"))

HeadersProps ==
  { Prop("ident", "headers", Obj(m, "user")) : m \in UserMaps }
    \cup { Prop("ident", "headers", Ident("commonHeaders")),
           Prop("string", "headers", Obj(<<>>, "user")) }

SectionLists ==
  { <<>>, <<Port>>, <<Spread("base")>> }
    \cup { <<h>> : h \in HeadersProps }
    \cup { <<Port, Prop("ident", "headers", Obj(<<>>, "user"))>>,
           <<Prop("ident", "headers", Obj(<<>>, "user")), Spread("base")>> }

SectionValues == { Obj(l, "user") : l \in SectionLists } \cup { Ident("serverOptions") }

ConfigProps ==
  { Prop("ident", s, v) : s \in {"server", "preview"}, v \in SectionValues }
    \cup { Prop("string", "server", Obj(<<Port>>, "user")),
           Prop("ident", "plugins", Lit("[]")),
           Prop("computed", "envKey", Lit("1")),
           Spread("shared") }

ConfigObjects ==
  { Obj(l, "user") : l \in { m \in SeqsUpTo(ConfigProps, MaxProps) : NoRepeat(m) } }

OtherArgs == { Ident("config"), Func("env") }

SmallArgs == { Obj(<<>>, "user"), Ident("config") }

Statements ==
  { <<Call("defineConfig", <<a>>)>> : a \in ConfigObjects \cup OtherArgs }
    \cup { <<Call("defineConfig", <<>>)>>, <<>>, <<Call("loadEnv", <<Obj(<<>>, "user")>>)>> }
    \cup { <<Call("loadEnv", <<Obj(<<>>, "user")>>), Call("defineConfig", <<a>>)>> : a \in SmallArgs }
    \cup { <<Call("defineConfig", <<a>>), Call("defineConfig", <<b>>)>> : a, b \in SmallArgs }

Sources == { [parseable |-> TRUE, stmts |-> s] : s \in Statements } \cup { NoText }

-----------------------------------------------------------------------------
(* The transformer as a state machine *)

Init ==
  /\ source \in Sources
  /\ pc = "parse"
  /\ root = <<>>
  /\ cfgIdx = 0
  /\ out = NoText
  /\ pass = 1
  /\ first = NoText
  /\ rev = "none"
  /\ rpc = "idle"
  /\ fs = NoFiles
  /\ fs0 = NoFiles
  /\ steps = <<>>

\* line 76: const root = j(source)
ParseStep ==
  /\ pc = "parse"
  /\ IF source.parseable
       THEN root' = Parse(source) /\ pc' = "find"
       ELSE root' = root /\ pc' = "parseError"
  /\ UNCHANGED <<source, cfgIdx, out, pass, first>>
  /\ UNCHANGED rvars

\* lines 77-84
FindStep ==
  /\ pc = "find"
  /\ LET found == FindConfig(root) IN
       IF Len(found) = 0
         THEN out' = source /\ pc' = "done" /\ cfgIdx' = cfgIdx
         ELSE out' = out /\ pc' = "server" /\ cfgIdx' = found[1]
  /\ UNCHANGED <<source, root, pass, first>>
  /\ UNCHANGED rvars

\* lines 86-99, one section per step
ForEachStep ==
  /\ pc \in {"server", "preview"}
  /\ LET r == SectionStep(FirstArg(root[cfgIdx]), pc) IN
       IF r.kind = "throw"
         THEN root' = root /\ pc' = "typeError"
         ELSE /\ root' = [root EXCEPT ![cfgIdx].args = <<r.obj>>]
              /\ pc' = IF pc = "server" THEN "preview" ELSE "print"
  /\ UNCHANGED <<source, cfgIdx, out, pass, first>>
  /\ UNCHANGED rvars

\* line 101
ToSourceStep ==
  /\ pc = "print"
  /\ out' = ToSource(root)
  /\ pc' = "done"
  /\ UNCHANGED <<source, root, cfgIdx, pass, first>>
  /\ UNCHANGED rvars

\* the tool is run again on the text it wrote
Rerun ==
  /\ pc = "done"
  /\ pass = 1
  /\ first' = out
  /\ source' = out
  /\ pass' = 2
  /\ pc' = "parse"
  /\ root' = <<>>
  /\ cfgIdx' = 0
  /\ out' = NoText
  /\ UNCHANGED rvars

Next ==
  \/ ParseStep
  \/ FindStep
  \/ ForEachStep
  \/ ToSourceStep
  \/ Rerun

Spec == Init /\ [][Next]_vars

-----------------------------------------------------------------------------
(* The whole transformer, as run() calls it *)

Raised(e) == [kind |-> e, text |-> NoText]
Returned(text) == [kind |-> "ok", text |-> text]

\* lines 75-102
Transform(src) ==
  IF ~src.parseable THEN Raised("parseError")
  ELSE LET tree  == Parse(src)
           found == FindConfig(tree)
       IN IF Len(found) = 0 THEN Returned(src)
          ELSE LET r1 == SectionStep(FirstArg(tree[found[1]]), "server")
                   r2 == IF r1.kind = "throw" THEN Thrown
                         ELSE SectionStep(r1.obj, "preview")
               IN IF r2.kind = "throw" THEN Raised("typeError")
                  ELSE Returned(ToSource([tree EXCEPT ![found[1]].args = <<r2.obj>>]))

-----------------------------------------------------------------------------
(* Projects run() is started in *)

Json(ms) == JObj(<<Mem("name", JStr("app"))>> \o ms)

ScriptsChoices ==
  { <<>>,
    <<Mem("scripts", JNull)>>,
    <<Mem("scripts", JObj(<<Mem("dev", JStr("vite"))>>))>>,
    <<Mem("scripts", JObj(<<Mem("start", JStr("vite preview")), Mem("dev", JStr("vite"))>>))>>,
    <<Mem("scripts", JObj(<<Mem("serve:prod", JStr("node old.js"))>>))>> }

DependenciesChoices ==
  { <<>>,
    <<Mem("dependencies", JObj(<<Mem("react", JStr("^18.0.0"))>>))>>,
    <<Mem("dependencies", JObj(<<Mem("express", JStr("^5.0.0")), Mem("react", JStr("^18.0.0"))>>))>>,
    <<Mem("dependencies", JObj(<<Mem("express", JStr(""))>>))>> }

TypeChoices ==
  { <<>>, <<Mem("type", JStr("commonjs"))>>, <<Mem("type", JStr(""))>> }

PkgFiles ==
  { File(PkgText(TRUE, ind, Json(sc \o dp \o ty))) :
      ind \in {"2", "4"}, sc \in ScriptsChoices, dp \in DependenciesChoices, ty \in TypeChoices }
    \cup { File(PkgText(FALSE, "", JUndef)), NoFile(NoPkg) }

Text(stmts) == [parseable |-> TRUE, stmts |-> stmts]

ConfigTexts ==
  { NoText,
    Text(<<Call("defineConfig", <<Obj(<<>>, "user")>>)>>),
    Text(<<Call("loadEnv", <<Obj(<<>>, "user")>>)>>),
    Text(<<Call("defineConfig", <<Ident("config")>>)>>),
    Text(<<Call("defineConfig",
            <<Obj(<<Prop("ident", "server",
                      Obj(<<Prop("ident", "headers",
                              Obj(<<Prop("string", "X-Frame-Options", Lit("DENY"))>>, "user"))>>,
                          "user"))>>, "user")>>)>>) }

Projects ==
  { [ ts |-> t, js |-> j, server |-> old[1], nginx |-> old[2], pkg |-> p ] :
      t \in { File(c) : c \in ConfigTexts } \cup { NoFile(NoText) },
      j \in { File(Text(<<Call("defineConfig", <<Obj(<<>>, "user")>>)>>)), NoFile(NoText) },
      old \in { <<NoFile(NoTemplate), NoFile(NoTemplate)>>, <<File(OldTemplate), File(OldTemplate)>> },
      p \in PkgFiles }

-----------------------------------------------------------------------------
(* run() as a state machine *)

RunInit ==
  /\ source = NoText
  /\ pc = "idle"
  /\ root = <<>>
  /\ cfgIdx = 0
  /\ out = NoText
  /\ pass = 1
  /\ first = NoText
  /\ rev \in {"part_000", "cli"}
  /\ rpc = "config"
  /\ fs \in Projects
  /\ fs0 = fs
  /\ steps = <<>>

\* ['vite.config.ts', 'vite.config.js'].find(p => fs.existsSync(p))
configPath(files) ==
  IF files.ts.exists THEN "ts" ELSE IF files.js.exists THEN "js" ELSE "none"

\* step 1: part_000 lines 497-510 (the call is inside try/catch),
\* cli.js lines 12-21 (it is not)
UpdateConfig ==
  /\ rpc = "config"
  /\ LET path == configPath(fs) IN
       IF path = "none"
         THEN /\ rpc' = "server"
              /\ UNCHANGED <<source, pc, out, fs, steps>>
         ELSE LET content == fs[path].data
                  r == Transform(content)
              IN /\ source' = content
                 /\ IF r.kind = "ok"
                      THEN /\ pc' = "done"
                           /\ out' = r.text
                           /\ fs' = [fs EXCEPT ![path] = File(r.text)]
                           /\ steps' = Append(steps, "config")
                           /\ rpc' = "server"
                      ELSE /\ pc' = r.kind
                           /\ UNCHANGED <<out, fs, steps>>
                           /\ rpc' = IF rev = "part_000" THEN "server" ELSE "rejected"
  /\ UNCHANGED <<root, cfgIdx, pass, first, rev, fs0>>

\* step 2: part_000 lines 513-562, cli.js lines 24-50
CreateServer ==
  /\ rpc = "server"
  /\ fs' = [fs EXCEPT !.server = File(serverTemplate(rev))]
  /\ steps' = Append(steps, "server")
  /\ rpc' = IF rev = "part_000" THEN "nginx" ELSE "pkg"
  /\ UNCHANGED <<tvars, rev, fs0>>

\* step 3 of part_000: lines 565-591
CreateNginx ==
  /\ rpc = "nginx"
  /\ fs' = [fs EXCEPT !.nginx = File(nginxTemplate)]
  /\ steps' = Append(steps, "nginx")
  /\ rpc' = "pkg"
  /\ UNCHANGED <<tvars, rev, fs0>>

\* step 4 of part_000: lines 594-615
UpdatePackage ==
  /\ rpc = "pkg"
  /\ rev = "part_000"
  /\ IF ~fs.pkg.exists
       THEN rpc' = "done" /\ UNCHANGED <<fs, steps>>
       ELSE IF ~fs.pkg.data.valid
         THEN rpc' = "rejected" /\ UNCHANGED <<fs, steps>>
         ELSE /\ fs' = [fs EXCEPT !.pkg = File(JsonStringify(UpdatePkg(JsonParse(fs.pkg.data))))]
              /\ steps' = Append(steps, "pkg")
              /\ rpc' = "done"
  /\ UNCHANGED <<tvars, rev, fs0>>

\* step 3 of cli.js: lines 53-57; readFileSync, JSON.parse and the
\* assignment into a missing pkg.scripts each throw
UpdatePackageCli ==
  /\ rpc = "pkg"
  /\ rev = "cli"
  /\ IF ~fs.pkg.exists \/ ~fs.pkg.data.valid
          \/ Get(JsonParse(fs.pkg.data), "scripts").t \in {"undefined", "null"}
       THEN rpc' = "rejected" /\ UNCHANGED <<fs, steps>>
       ELSE /\ fs' = [fs EXCEPT !.pkg =
                        File(JsonStringify(SetScript(JsonParse(fs.pkg.data), "serve:prod")))]
            /\ steps' = Append(steps, "pkg")
            /\ rpc' = "done"
  /\ UNCHANGED <<tvars, rev, fs0>>

RunNext ==
  \/ UpdateConfig
  \/ CreateServer
  \/ CreateNginx
  \/ UpdatePackage
  \/ UpdatePackageCli

RunSpec == RunInit /\ [][RunNext]_vars

-----------------------------------------------------------------------------
(* Reading a text *)

Terminal == pc \in {"done", "parseError", "typeError"}

\* the statements of a text that call the identifier defineConfig
ConfigCalls(src) == { i \in 1..Len(src.stmts) : src.stmts[i].callee = "defineConfig" }

HasConfigCall(src) == src.parseable /\ ConfigCalls(src) # {}

Min(S) == CHOOSE x \in S : \A y \in S : x <= y

\* the argument of the first defineConfig call of a text that has one
ConfigArg(src) ==
  LET call == src.stmts[Min(ConfigCalls(src))]
  IN IF Len(call.args) = 0 THEN Undefined ELSE call.args[1]

\* a property written key: v or 'key': v
KeyIs(p, name) == p.form \in {"ident", "string"} /\ p.name = name

Keyed(props, name) == { i \in 1..Len(props) : KeyIs(props[i], name) }

Max(S) == CHOOSE x \in S : \A y \in S : y <= x

IsPrefix(s, t) == Len(s) <= Len(t) /\ \A i \in 1..Len(s) : s[i] = t[i]

\* a precedes b: every object of a keeps its properties, in place, in b
RECURSIVE ValuePrefix(_, _)
ValuePrefix(a, b) ==
  IF a.type # "obj" THEN a = b
  ELSE /\ b.type = "obj"
       /\ Len(a.props) <= Len(b.props)
       /\ \A i \in 1..Len(a.props) :
            /\ a.props[i].form = b.props[i].form
            /\ a.props[i].name = b.props[i].name
            /\ ValuePrefix(a.props[i].value, b.props[i].value)

ArgsPrefix(s, t) ==
  /\ Len(s.args) = Len(t.args)
  /\ \A i \in 1..Len(s.args) : ValuePrefix(s.args[i], t.args[i])

\* the value of obj.name when the object literal is evaluated: the last
\* property with that key wins; Undefined when there is none
Member(obj, name) ==
  IF obj.type # "obj" \/ Keyed(obj.props, name) = {} THEN Undefined
  ELSE obj.props[Max(Keyed(obj.props, name))].value

\* section.headers of a config object
HeadersOf(cfg, section) == Member(Member(cfg, section), "headers")

Sections == {"server", "preview"}

-----------------------------------------------------------------------------
(* C1 *)

\* C1: idempotence. When the transformer is run on the text a first run
\* returned for a source with a defineConfig call, it does not raise and it
\* returns that very text: no section, no headers property and no header
\* entry is added.
C1_Idempotent ==
  (pass = 2 /\ HasConfigCall(first)) =>
     /\ pc \notin {"parseError", "typeError"}
     /\ pc = "done" => (out = first /\ out = source)

\* a second run has finished on a text the first run had to extend
C1_Witness ==
  /\ pass = 2
  /\ pc = "done"
  /\ HasConfigCall(first)
  /\ ConfigArg(first).style = "printer"
  /\ HeadersOf(ConfigArg(first), "server").props = headerProps

-----------------------------------------------------------------------------
(* C2 *)

\* C2: additive-only. Whenever the transformer returns, every statement of
\* the input is still there with the same callee, and the property list of
\* the config object, of each section object and of each headers map of the
\* input is a prefix of the same list in the output, with every pre-existing
\* key and value unchanged.
C2_AdditiveOnly ==
  pc = "done" =>
     /\ Len(out.stmts) = Len(source.stmts)
     /\ \A i \in 1..Len(source.stmts) :
          /\ out.stmts[i].callee = source.stmts[i].callee
          /\ ArgsPrefix(source.stmts[i], out.stmts[i])

\* the first run returned a changed text for a config that already had a
\* server section with a port and a headers map
C2_Witness ==
  /\ pass = 1
  /\ pc = "done"
  /\ out # source
  /\ HasConfigCall(source)
  /\ Len(ConfigArg(source).props) = MaxProps
  /\ Member(ConfigArg(source), "server").type = "obj"
  /\ Len(Member(ConfigArg(source), "server").props) > 1
  /\ Len(ConfigArg(out).props) > MaxProps

-----------------------------------------------------------------------------
(* C3 *)

\* the entries of headerProps whose key the map m does not define
Missing(m) ==
  SelectSeq(headerProps, LAMBDA h : \A i \in 1..Len(m) : ~KeyIs(m[i], h.name))

\* a section of the input that has a headers object literal defining a
\* canonical key
DefinesCanonical(cfg, section) ==
  /\ HeadersOf(cfg, section).type = "obj"
  /\ \E i \in 1..Len(HeadersOf(cfg, section).props) :
       \E h \in 1..Len(headerProps) :
          KeyIs(HeadersOf(cfg, section).props[i], headerProps[h].name)

\* C3: merge into an existing headers map. When the transformer returns and
\* a section of the input had a headers object literal that defines a
\* canonical key, the map of the output is the user's map followed by the
\* canonical entries the user's map lacked, in canonical order.
C3_MergeIntoExisting ==
  (pass = 1 /\ pc = "done" /\ HasConfigCall(source)) =>
     \A s \in Sections :
        DefinesCanonical(ConfigArg(source), s) =>
           HeadersOf(ConfigArg(out), s).props
              = HeadersOf(ConfigArg(source), s).props
                  \o Missing(HeadersOf(ConfigArg(source), s).props)

-----------------------------------------------------------------------------
(* C4 *)

\* a section that is absent, or an object literal without a headers property
Mergeable(cfg, section) ==
  \A i \in Keyed(cfg.props, section) :
     /\ cfg.props[i].value.type = "obj"
     /\ Keyed(cfg.props[i].value.props, "headers") = {}

\* C4: completeness. For an input whose defineConfig argument is an object
\* literal in which server and preview are each absent or an object literal
\* without a headers property, the transformer returns, and server.headers
\* and preview.headers of the output are exactly the nine canonical entries
\* in canonical order.
C4_Complete ==
  ( /\ pass = 1
    /\ Terminal
    /\ HasConfigCall(source)
    /\ ConfigArg(source).type = "obj"
    /\ \A s \in Sections : Mergeable(ConfigArg(source), s) ) =>
       /\ pc = "done"
       /\ \A s \in Sections : HeadersOf(ConfigArg(out), s).props = headerProps

-----------------------------------------------------------------------------
(* C5 *)

\* C5: no-op on irrelevant input. For a source that parses and has no call
\* of defineConfig, the transformer returns, and what it returns is the
\* source itself.
C5_NoOp ==
  (source.parseable /\ ConfigCalls(source) = {}) =>
     \/ pc \in {"parse", "find"}
     \/ pc = "done" /\ out = source

\* the transformer returned for a source whose only call is not defineConfig
C5_Witness ==
  /\ pass = 1
  /\ pc = "done"
  /\ Len(source.stmts) > 0
  /\ ConfigCalls(source) = {}
  /\ out = source

-----------------------------------------------------------------------------
(* C6 *)

\* C6: the transformer raises only for a source that does not parse.
C6_NeverRaisesOnValid ==
  source.parseable => pc \notin {"parseError", "typeError"}

-----------------------------------------------------------------------------
(* C7 *)

\* C7: unsupported argument shape. When the first defineConfig call has no
\* argument or an argument that is not an object literal, the transformer
\* returns the input text unchanged.
C7_UnsupportedArgument ==
  ( /\ Terminal
    /\ HasConfigCall(source)
    /\ ConfigArg(source).type # "obj" ) =>
       pc = "done" /\ out = source

-----------------------------------------------------------------------------
(* C8 *)

\* every property is written key: v with a plain identifier key
PlainKeys(props) == \A i \in 1..Len(props) : props[i].form = "ident"

\* the section s has a value that is not an object literal, the other
\* section t is absent or a plain object literal, and nothing else in the
\* config object is unusual
OneSectionUneditable(cfg, s, t) ==
  /\ cfg.type = "obj"
  /\ PlainKeys(cfg.props)
  /\ Cardinality(Keyed(cfg.props, s)) = 1
  /\ Member(cfg, s).type # "obj"
  /\ Cardinality(Keyed(cfg.props, t)) <= 1
  /\ \A i \in Keyed(cfg.props, t) :
       /\ cfg.props[i].value.type = "obj"
       /\ PlainKeys(cfg.props[i].value.props)
       /\ \A j \in Keyed(cfg.props[i].value.props, "headers") :
            cfg.props[i].value.props[j].value.type = "obj"

\* C8: per-section skip. When one section of the config object has a value
\* that is not an object literal, the transformer returns, that section is
\* as it was, and the other section has a headers map.
C8_PerSectionSkip ==
  \A s, t \in Sections :
     ( /\ s # t
       /\ pass = 1
       /\ Terminal
       /\ HasConfigCall(source)
       /\ OneSectionUneditable(ConfigArg(source), s, t) ) =>
          /\ pc = "done"
          /\ Member(ConfigArg(out), s) = Member(ConfigArg(source), s)
          /\ HeadersOf(ConfigArg(out), t).type = "obj"

-----------------------------------------------------------------------------
(* C9 *)

\* the value a list of (name, value) pairs gives a header; "" when it has none
ValueOf(headers, name) ==
  IF \E i \in 1..Len(headers) : headers[i][1] = name
    THEN headers[CHOOSE i \in 1..Len(headers) : headers[i][1] = name][2]
    ELSE ""

\* the headers map of a section, as (name, value) pairs
MapPairs(m) == [i \in 1..Len(m.props) |-> <<m.props[i].name, m.props[i].value.text>>]

RunDone == rpc \in {"done", "rejected"}

Did(step) == \E i \in 1..Len(steps) : steps[i] = step

\* the run gave the config file a headers map for this section
Emitted(section) ==
  /\ Did("config")
  /\ HasConfigCall(out)
  /\ HeadersOf(ConfigArg(source), section).type # "obj"
  /\ HeadersOf(ConfigArg(out), section).type = "obj"

\* C9: artifact consistency. Once a run has patched the config file and
\* written server.js and nginx.conf, every canonical header has the same
\* value in the headers map the run emitted, in server.js and in nginx.conf.
C9_ArtifactsConsistent ==
  (rev = "part_000" /\ Did("config") /\ Did("server") /\ Did("nginx")) =>
     \A s \in Sections :
        Emitted(s) =>
           \A i \in 1..Len(SECURITY_HEADERS) :
              LET name == SECURITY_HEADERS[i][1]
                  inConfig == ValueOf(MapPairs(HeadersOf(ConfigArg(out), s)), name)
              IN /\ inConfig = ValueOf(fs.server.data.headers, name)
                 /\ inConfig = ValueOf(fs.nginx.data.headers, name)

-----------------------------------------------------------------------------
(* C10 *)

AsObject(v) == IF v.t = "obj" THEN v ELSE JObj(<<>>)

\* every member of old is in new at the same place, with the same value
\* unless its key is in keys, and every member new adds has its key in keys
SameExcept(old, new, keys) ==
  /\ new.t = "obj"
  /\ Len(AsObject(old).o) <= Len(new.o)
  /\ \A i \in 1..Len(AsObject(old).o) :
       /\ new.o[i].key = old.o[i].key
       /\ old.o[i].key \notin keys => new.o[i].val = old.o[i].val
  /\ \A i \in (Len(AsObject(old).o) + 1)..Len(new.o) : new.o[i].key \in keys

\* the member is v when it was absent or falsy, and as it was otherwise
KeptOr(old, new, v) == new = (IF Falsy(old) THEN v ELSE old)

OldPkg == JsonParse(fs0.pkg.data)
NewPkg == JsonParse(fs.pkg.data)

\* C10, as amended: a run that gets to the package.json step of part_000
\* sets scripts.start to 'node server.js' whether or not a start script
\* existed, sets dependencies.express and type only where the value was
\* absent or falsy, keeps every other member of the manifest, of scripts and
\* of dependencies in place with its value, and writes the file with an
\* indentation of 2; the step of cli.js sets only scripts['serve:prod'],
\* also unconditionally; a run that does not complete the step leaves the
\* file as it was.
C10_ManifestUpdate ==
  /\ ~Did("pkg") => fs.pkg = fs0.pkg
  /\ (Did("pkg") /\ rev = "part_000") =>
       /\ fs.pkg.data.valid /\ fs.pkg.data.indent = "2"
       /\ SameExcept(OldPkg, NewPkg, {"scripts", "dependencies", "type"})
       /\ SameExcept(Get(OldPkg, "scripts"), Get(NewPkg, "scripts"), {"start"})
       /\ Get(Get(NewPkg, "scripts"), "start") = JStr("node server.js")
       /\ SameExcept(Get(OldPkg, "dependencies"), Get(NewPkg, "dependencies"), {"express"})
       /\ KeptOr(Get(Get(OldPkg, "dependencies"), "express"),
                 Get(Get(NewPkg, "dependencies"), "express"), JStr("^4.21.2"))
       /\ KeptOr(Get(OldPkg, "type"), Get(NewPkg, "type"), JStr("module"))
  /\ (Did("pkg") /\ rev = "cli") =>
       /\ fs.pkg.data.valid /\ fs.pkg.data.indent = "2"
       /\ SameExcept(OldPkg, NewPkg, {"scripts"})
       /\ SameExcept(Get(OldPkg, "scripts"), Get(NewPkg, "scripts"), {"serve:prod"})
       /\ Get(Get(NewPkg, "scripts"), "serve:prod") = JStr("node server.js")

\* the run of part_000 has patched a manifest that already had a start
\* script, an express version and a type
C10_Witness ==
  /\ rev = "part_000"
  /\ rpc = "done"
  /\ Did("pkg")
  /\ Get(Get(OldPkg, "scripts"), "start") = JStr("vite preview")
  /\ Get(Get(OldPkg, "dependencies"), "express") = JStr("^5.0.0")
  /\ Get(OldPkg, "type") = JStr("commonjs")
  /\ fs0.pkg.data.indent = "4"

Defined(v) == v.t # "undefined"

\* C10, as claimed: the run leaves an existing scripts.start, an existing
\* (non-empty) dependencies.express and an existing (non-empty) type as they
\* were, and every other member of the manifest unchanged.
C10_NeverOverwrites ==
  (Did("pkg") /\ rev = "part_000") =>
     /\ SameExcept(OldPkg, NewPkg, {"scripts", "dependencies", "type"})
     /\ Defined(Get(Get(OldPkg, "scripts"), "start")) =>
          Get(Get(NewPkg, "scripts"), "start") = Get(Get(OldPkg, "scripts"), "start")
     /\ ~Falsy(Get(Get(OldPkg, "dependencies"), "express")) =>
          Get(Get(NewPkg, "dependencies"), "express") = Get(Get(OldPkg, "dependencies"), "express")
     /\ ~Falsy(Get(OldPkg, "type")) => Get(NewPkg, "type") = Get(OldPkg, "type")

-----------------------------------------------------------------------------
(* C11 *)

\* the transformer raised on the content of the config file
TransformRaised == pc \in {"parseError", "typeError"}

\* no vite.config.ts and no vite.config.js when the run started
NoConfigFile == configPath(fs0) = "none"

\* the steps a revision of run() has after the config step
LaterSteps(r) ==
  IF r = "part_000" THEN <<"server", "nginx", "pkg">> ELSE <<"server", "pkg">>

\* the package.json step of the revision can be carried out: the file is
\* there, it is JSON, and (cli.js) it has a scripts object
PkgPatchable ==
  /\ fs0.pkg.exists
  /\ fs0.pkg.data.valid
  /\ rev = "cli" => Get(JsonParse(fs0.pkg.data), "scripts").t = "obj"

\* C11: failure isolation. When the transformer raises on the config file's
\* content, or when there is no config file (and then the transformer is
\* never invoked), the config files stay as they were, the steps done so far
\* are the first of the later steps in order, and the run ends completed
\* with all of them done.
C11_FailureIsolation ==
  ((TransformRaised \/ (NoConfigFile /\ rpc # "config")) /\ PkgPatchable) =>
     /\ fs.ts = fs0.ts /\ fs.js = fs0.js
     /\ NoConfigFile => pc = "idle"
     /\ IsPrefix(steps, LaterSteps(rev))
     /\ RunDone => (rpc = "done" /\ steps = LaterSteps(rev))

-----------------------------------------------------------------------------
(* C12 *)

\* C12: no duplicate section keys. When the transformer returns for a config
\* object that writes no key twice, the output has at most one direct
\* property keyed server and at most one keyed preview, identifier and
\* string-literal keys alike, and a section property was added only where
\* the input had none with that key in either form.
C12_NoDuplicateSections ==
  ( /\ pass = 1
    /\ pc = "done"
    /\ rev = "none"
    /\ HasConfigCall(source)
    /\ ConfigArg(source).type = "obj" ) =>
       \A s \in Sections :
          /\ Cardinality(Keyed(ConfigArg(out).props, s)) <= 1
          /\ Cardinality(Keyed(ConfigArg(out).props, s))
               > Cardinality(Keyed(ConfigArg(source).props, s))
                 => Keyed(ConfigArg(source).props, s) = {}

====
